---- MODULE Spec2Model ----
(***************************************************************************)
(* express-decorated-router: the metadata registry (six module-level maps) *)
(* and the two-pass assembly of ExpressDecoratedRouter.applyRoutes.        *)
(*                                                                         *)
(* JavaScript Maps iterate in insertion order and Map.set on a present key *)
(* keeps the key's position, so the maps the code iterates (controllerMap, *)
(* parentMap, each RouteSpec object and each HttpMethodSpec) are sequences *)
(* of entries; the maps it only looks up are functions class -> entry.     *)
(* Routers are objects of the host framework: `routers` is the heap of     *)
(* their layer stacks, a router being its index, and `app` is the stack of *)
(* the application router handed to applyRoutes.  Router-construction      *)
(* options are stored and handed to createRouter unchanged; no operation   *)
(* reads them, and they are left out.                                      *)
(***************************************************************************)
EXTENDS Integers, Sequences, FiniteSets, TLC

\* Classes that carry decorations, and every class (Z is only ever named as
\* a parent: the "undeclared controller" of the specification).
Controllers == {"A", "B"}
Classes == {"A", "B", "Z"}
\* The root each class is decorated with.
RootOf == [c \in {"A", "B"} |-> IF c = "A" THEN "/a" ELSE "/b"]
Methods == {"get", "post"}
Paths == {"/x"}
Handlers == {"h1", "h2"}
CtrlMiddleware == {<<>>, <<"M">>}
RouteMiddleware == {<<>>, <<"N">>}

\* Bounds: the routers one behaviour may construct, and the registration
\* calls it may make once a router has been constructed.
MaxRouters == 4
MaxLate == 1

\* The application router as the target of a call (routers are 1, 2, ...).
AppRouter == 0
NoRouter == 0

VARIABLES
  controllerMap,            \* Map<Function, ControllerSpec>, in insertion order
  routeMap,                 \* Map<Function, RouteSpec>
  controllerMiddlewareMap,  \* Map<Function, RequestHandler[]>
  routeMiddlewareMap,       \* Map<RequestHandler, RequestHandler[]>
  routerMap,                \* Map<Function, IRouter>
  parentMap,                \* Map<Function, Function>, in insertion order
  routers,                  \* heap of the routers createRouter has made
  app,                      \* layer stack of the application router
  trace,                    \* host-framework calls made by the last operation
  outcome,                  \* how the last operation ended
  overwritten,              \* handlers a later addRoute replaced on their key
  late                      \* registration calls made since a router exists

tables == <<controllerMap, routeMap, controllerMiddlewareMap,
            routeMiddlewareMap, routerMap, parentMap>>
vars == <<controllerMap, routeMap, controllerMiddlewareMap,
          routeMiddlewareMap, routerMap, parentMap, routers, app, trace,
          outcome, overwritten, late>>

----------------------------------------------------------------------------
(* Map primitives *)

Absent == [has |-> FALSE, val |-> <<>>]
Present(v) == [has |-> TRUE, val |-> v]

HasController(cm, clazz) == \E i \in 1..Len(cm) : cm[i].clazz = clazz
GetController(cm, clazz) ==
  cm[CHOOSE i \in 1..Len(cm) : cm[i].clazz = clazz]
SetController(cm, clazz, root) ==
  IF HasController(cm, clazz)
  THEN [i \in 1..Len(cm) |->
          IF cm[i].clazz = clazz THEN [clazz |-> clazz, root |-> root]
          ELSE cm[i]]
  ELSE Append(cm, [clazz |-> clazz, root |-> root])

HasParent(pm, child) == \E i \in 1..Len(pm) : pm[i].child = child
SetParent(pm, child, parent) ==
  IF HasParent(pm, child)
  THEN [i \in 1..Len(pm) |->
          IF pm[i].child = child THEN [child |-> child, parent |-> parent]
          ELSE pm[i]]
  ELSE Append(pm, [child |-> child, parent |-> parent])

\* The handler httpMethodSpec.set(path, handler) is about to replace, if any.
Replaced(rs, httpMethod, path, handler) ==
  {g \in Handlers \ {handler} :
     \E i \in 1..Len(rs) :
        /\ rs[i].httpMethod = httpMethod
        /\ \E j \in 1..Len(rs[i].spec) :
              rs[i].spec[j].path = path /\ rs[i].spec[j].handler = g}

\* An HttpMethodSpec kept as a list of entries: a second registration of a
\* path is added after the first.
SetPath_Append(ms, path, handler) ==
  Append(ms, [path |-> path, handler |-> handler])

\* HttpMethodSpec.set(path, handler)
SetPath(ms, path, handler) ==
  IF \E i \in 1..Len(ms) : ms[i].path = path
  THEN [i \in 1..Len(ms) |->
          IF ms[i].path = path THEN [path |-> path, handler |-> handler]
          ELSE ms[i]]
  ELSE Append(ms, [path |-> path, handler |-> handler])

\* routeSpec[httpMethod] created on first use, then httpMethodSpec.set
SetRoute(rs, httpMethod, path, handler) ==
  IF \E i \in 1..Len(rs) : rs[i].httpMethod = httpMethod
  THEN [i \in 1..Len(rs) |->
          IF rs[i].httpMethod = httpMethod
          THEN [httpMethod |-> httpMethod,
                spec |-> SetPath(rs[i].spec, path, handler)]
          ELSE rs[i]]
  ELSE Append(rs, [httpMethod |-> httpMethod,
                   spec |-> <<[path |-> path, handler |-> handler]>>])

----------------------------------------------------------------------------
(* Host-framework calls *)

Layer(kind, method, path, fns, router) ==
  [kind |-> kind, method |-> method, path |-> path, fns |-> fns,
   router |-> router]
CreateLayer == Layer("create", "", "", <<>>, NoRouter)
UseLayer(fns) == Layer("use", "", "", fns, NoRouter)
UsePathLayer(path, fns) == Layer("use", "", path, fns, NoRouter)
RouteLayer(method, path, handler) ==
  Layer("route", method, path, <<handler>>, NoRouter)
MountLayer(path, router) == Layer("mount", "", path, <<>>, router)

Call(by, target, layer) == [by |-> by, target |-> target, layer |-> layer]

\* One call on the host framework: createRouter() allocates the next router,
\* every other call appends a layer to the stack of its target.
Do(st, call) ==
  LET heap ==
        IF call.layer.kind = "create" THEN Append(st.routers, <<>>)
        ELSE IF call.target = AppRouter THEN st.routers
        ELSE [st.routers EXCEPT ![call.target] = Append(@, call.layer)]
      stack ==
        IF call.layer.kind # "create" /\ call.target = AppRouter
        THEN Append(st.app, call.layer)
        ELSE st.app
  IN [st EXCEPT !.routers = heap, !.app = stack,
                !.trace = Append(@, call)]

----------------------------------------------------------------------------
(* The assembly.  `reg` holds the five registration tables the assembly   *)
(* reads; `st` holds what it writes: the router heap, routerMap, the      *)
(* application router's stack, the trace of calls and the error raised.   *)

Returned == [status |-> "returned", child |-> "", parent |-> ""]
NoOutcome == [status |-> "none", child |-> "", parent |-> ""]
ParentControllerError(child, parent) ==
  [status |-> "ParentControllerError", child |-> child, parent |-> parent]
UnregisteredControllerError(child) ==
  [status |-> "UnregisteredControllerError", child |-> child, parent |-> ""]
\* childSpec.root with childSpec undefined
RootOfUndefined(child) ==
  [status |-> "TypeError", child |-> child, parent |-> ""]

processControllerMiddleware(st, reg, router, controller) ==
  IF reg.controllerMiddlewareMap[controller].has
  THEN Do(st, Call("processControllerMiddleware", router,
                   UseLayer(reg.controllerMiddlewareMap[controller].val)))
  ELSE st

processRouteMiddleware(st, router, pathParams, routeMiddleware) ==
  IF routeMiddleware.has /\ Len(routeMiddleware.val) > 0
  THEN Do(st, Call("processRouteMiddleware", router,
                   UsePathLayer(pathParams, routeMiddleware.val)))
  ELSE st

\* processHttpMethodSpec with its two statements in the other order: the
\* handler is registered before its route middleware.
processHttpMethodSpec_HandlerFirst(st, reg, router, pathParams, requestHandler, httpMethod) ==
  processRouteMiddleware(
    Do(st, Call("processHttpMethodSpec", router,
                RouteLayer(httpMethod, pathParams, requestHandler))),
    router, pathParams, reg.routeMiddlewareMap[requestHandler])

processHttpMethodSpec(st, reg, router, pathParams, requestHandler, httpMethod) ==
  Do(processRouteMiddleware(st, router, pathParams,
                            reg.routeMiddlewareMap[requestHandler]),
     Call("processHttpMethodSpec", router,
          RouteLayer(httpMethod, pathParams, requestHandler)))

\* The entries of one HttpMethodSpec from the k-th on, in insertion order.
RECURSIVE processRouteSpecFrom(_, _, _, _, _, _)
processRouteSpecFrom(st, reg, router, httpMethod, httpMethodSpec, k) ==
  IF k > Len(httpMethodSpec) THEN st
  ELSE processRouteSpecFrom(
         processHttpMethodSpec(st, reg, router, httpMethodSpec[k].path,
                               httpMethodSpec[k].handler, httpMethod),
         reg, router, httpMethod, httpMethodSpec, k + 1)

processRouteSpec(st, reg, router, httpMethod, httpMethodSpec) ==
  processRouteSpecFrom(st, reg, router, httpMethod, httpMethodSpec, 1)

\* forEach(routeSpec, ...): the HTTP methods from the k-th on.
RECURSIVE forEachMethod(_, _, _, _, _)
forEachMethod(st, reg, router, routeSpec, k) ==
  IF k > Len(routeSpec) THEN st
  ELSE forEachMethod(
         processRouteSpec(st, reg, router, routeSpec[k].httpMethod,
                          routeSpec[k].spec),
         reg, router, routeSpec, k + 1)

\* processController without the parentMap test: every router is mounted on
\* the application router.
processController_MountAlways(st, reg, controller, controllerSpec) ==
  IF ~reg.routeMap[controller].has THEN st
  ELSE IF reg.routeMap[controller].val = <<>> THEN st
  ELSE
    LET router == Len(st.routers) + 1
        created == Do(st, Call("processController", router, CreateLayer))
        withMw == processControllerMiddleware(created, reg, router, controller)
        withRoutes ==
          forEachMethod(withMw, reg, router, reg.routeMap[controller].val, 1)
        recorded == [withRoutes EXCEPT !.routerMap[controller] = router]
    IN Do(recorded, Call("processController", AppRouter,
                         MountLayer(controllerSpec.root, router)))

\* processController without the two skip tests: a controller without routes
\* gets a router too.
processController_NoSkip(st, reg, controller, controllerSpec) ==
  LET router == Len(st.routers) + 1
      created == Do(st, Call("processController", router, CreateLayer))
      withMw == processControllerMiddleware(created, reg, router, controller)
      withRoutes ==
        forEachMethod(withMw, reg, router, reg.routeMap[controller].val, 1)
      recorded == [withRoutes EXCEPT !.routerMap[controller] = router]
  IN IF ~HasParent(reg.parentMap, controller)
     THEN Do(recorded, Call("processController", AppRouter,
                            MountLayer(controllerSpec.root, router)))
     ELSE recorded

processController(st, reg, controller, controllerSpec) ==
  IF ~reg.routeMap[controller].has THEN st
  ELSE IF reg.routeMap[controller].val = <<>> THEN st
  ELSE
    LET router == Len(st.routers) + 1
        created == Do(st, Call("processController", router, CreateLayer))
        withMw == processControllerMiddleware(created, reg, router, controller)
        withRoutes ==
          forEachMethod(withMw, reg, router, reg.routeMap[controller].val, 1)
        recorded == [withRoutes EXCEPT !.routerMap[controller] = router]
    IN IF ~HasParent(reg.parentMap, controller)
       THEN Do(recorded, Call("processController", AppRouter,
                              MountLayer(controllerSpec.root, router)))
       ELSE recorded

\* processParents resolving the child before the parent.
processParents_ChildFirst(st, reg, child, parent) ==
  LET parentRouter == st.routerMap[parent]
      childRouter == st.routerMap[child]
      parentMiddleware == reg.controllerMiddlewareMap[parent]
      transferred ==
        IF parentMiddleware.has /\ Len(parentMiddleware.val) > 0
        THEN Do(st, Call("processParents", childRouter,
                         UseLayer(parentMiddleware.val)))
        ELSE st
  IN IF childRouter # NoRouter
     THEN IF parentRouter # NoRouter
          THEN IF HasController(reg.controllerMap, child)
               THEN Do(transferred,
                       Call("processParents", parentRouter,
                            MountLayer(GetController(reg.controllerMap, child).root,
                                       childRouter)))
               ELSE [transferred EXCEPT !.error = RootOfUndefined(child)]
          ELSE [st EXCEPT !.error = ParentControllerError(child, parent)]
     ELSE [st EXCEPT !.error = UnregisteredControllerError(child)]

\* processParents throwing the parent's error for a child without a router.
processParents_WrongError(st, reg, child, parent) ==
  LET parentRouter == st.routerMap[parent]
      childRouter == st.routerMap[child]
      parentMiddleware == reg.controllerMiddlewareMap[parent]
      transferred ==
        IF parentMiddleware.has /\ Len(parentMiddleware.val) > 0
        THEN Do(st, Call("processParents", childRouter,
                         UseLayer(parentMiddleware.val)))
        ELSE st
  IN IF parentRouter # NoRouter
     THEN IF childRouter # NoRouter
          THEN IF HasController(reg.controllerMap, child)
               THEN Do(transferred,
                       Call("processParents", parentRouter,
                            MountLayer(GetController(reg.controllerMap, child).root,
                                       childRouter)))
               ELSE [transferred EXCEPT !.error = RootOfUndefined(child)]
          ELSE [st EXCEPT !.error = ParentControllerError(child, parent)]
     ELSE [st EXCEPT !.error = ParentControllerError(child, parent)]

\* processParents mounting the child before it transfers the middleware.
processParents_MountFirst(st, reg, child, parent) ==
  LET parentRouter == st.routerMap[parent]
      childRouter == st.routerMap[child]
      parentMiddleware == reg.controllerMiddlewareMap[parent]
      mounted ==
        Do(st, Call("processParents", parentRouter,
                    MountLayer(GetController(reg.controllerMap, child).root,
                               childRouter)))
  IN IF parentRouter # NoRouter
     THEN IF childRouter # NoRouter
          THEN IF HasController(reg.controllerMap, child)
               THEN IF parentMiddleware.has /\ Len(parentMiddleware.val) > 0
                    THEN Do(mounted, Call("processParents", childRouter,
                                          UseLayer(parentMiddleware.val)))
                    ELSE mounted
               ELSE [st EXCEPT !.error = RootOfUndefined(child)]
          ELSE [st EXCEPT !.error = UnregisteredControllerError(child)]
     ELSE [st EXCEPT !.error = ParentControllerError(child, parent)]

processParents(st, reg, child, parent) ==
  LET parentRouter == st.routerMap[parent]
      childRouter == st.routerMap[child]
      parentMiddleware == reg.controllerMiddlewareMap[parent]
      transferred ==
        IF parentMiddleware.has /\ Len(parentMiddleware.val) > 0
        THEN Do(st, Call("processParents", childRouter,
                         UseLayer(parentMiddleware.val)))
        ELSE st
  IN IF parentRouter # NoRouter
     THEN IF childRouter # NoRouter
          THEN IF HasController(reg.controllerMap, child)
               THEN Do(transferred,
                       Call("processParents", parentRouter,
                            MountLayer(GetController(reg.controllerMap, child).root,
                                       childRouter)))
               ELSE [transferred EXCEPT !.error = RootOfUndefined(child)]
          ELSE [st EXCEPT !.error = UnregisteredControllerError(child)]
     ELSE [st EXCEPT !.error = ParentControllerError(child, parent)]

\* First loop of applyRoutes: controllerMap.entries() from the k-th on.
RECURSIVE Pass1(_, _, _)
Pass1(st, reg, k) ==
  IF k > Len(reg.controllerMap) THEN st
  ELSE Pass1(processController(st, reg, reg.controllerMap[k].clazz,
                               reg.controllerMap[k]),
             reg, k + 1)

\* The second loop catching what processParents throws: the pair is skipped,
\* the loop goes on, and the first error is thrown at the end.
RECURSIVE Pass2_SkipAndContinue(_, _, _)
Pass2_SkipAndContinue(st, reg, k) ==
  IF k > Len(reg.parentMap) THEN st
  ELSE LET next == processParents([st EXCEPT !.error = Returned], reg,
                                  reg.parentMap[k].child,
                                  reg.parentMap[k].parent)
       IN Pass2_SkipAndContinue(
            IF st.error.status # "returned"
            THEN [next EXCEPT !.error = st.error] ELSE next,
            reg, k + 1)

\* The second loop taking the pairs from the last registered to the first.
RECURSIVE Pass2_LastFirst(_, _, _)
Pass2_LastFirst(st, reg, k) ==
  IF k > Len(reg.parentMap) THEN st
  ELSE LET pair == reg.parentMap[Len(reg.parentMap) + 1 - k]
           next == processParents(st, reg, pair.child, pair.parent)
       IN IF next.error.status # "returned" THEN next
          ELSE Pass2_LastFirst(next, reg, k + 1)

\* Second loop of applyRoutes: parentMap.entries() from the k-th on; a throw
\* leaves the loop and the call.
RECURSIVE Pass2(_, _, _)
Pass2(st, reg, k) ==
  IF k > Len(reg.parentMap) THEN st
  ELSE LET next == processParents(st, reg, reg.parentMap[k].child,
                                  reg.parentMap[k].parent)
       IN IF next.error.status # "returned" THEN next
          ELSE Pass2(next, reg, k + 1)

\* One loop instead of two: each controller's parent is wired as soon as the
\* controller has been processed.
RECURSIVE SinglePass(_, _, _)
SinglePass(st, reg, k) ==
  IF k > Len(reg.controllerMap) THEN st
  ELSE LET controller == reg.controllerMap[k].clazz
           built == processController(st, reg, controller, reg.controllerMap[k])
           pairs == {i \in 1..Len(reg.parentMap) :
                       reg.parentMap[i].child = controller}
           next == IF pairs = {} THEN built
                   ELSE processParents(built, reg, controller,
                                       reg.parentMap[CHOOSE i \in pairs : TRUE].parent)
       IN IF next.error.status # "returned" THEN next
          ELSE SinglePass(next, reg, k + 1)

applyRoutes_SinglePass(st, reg) ==
  SinglePass([st EXCEPT !.trace = <<>>, !.error = Returned], reg, 1)

\* applyRoutes undoing what it did when Pass 2 throws: the routers, the
\* application router's stack and routerMap are put back as they were.
applyRoutes_Rollback(st, reg) ==
  LET done == Pass2(Pass1([st EXCEPT !.trace = <<>>, !.error = Returned],
                          reg, 1), reg, 1)
  IN IF done.error.status = "returned" THEN done
     ELSE [st EXCEPT !.trace = done.trace, !.error = done.error]

applyRoutes(st, reg) ==
  Pass2(Pass1([st EXCEPT !.trace = <<>>, !.error = Returned], reg, 1), reg, 1)

Registry ==
  [controllerMap |-> controllerMap, routeMap |-> routeMap,
   controllerMiddlewareMap |-> controllerMiddlewareMap,
   routeMiddlewareMap |-> routeMiddlewareMap, parentMap |-> parentMap]
Assembly ==
  [routers |-> routers, routerMap |-> routerMap, app |-> app,
   trace |-> trace, error |-> outcome]

----------------------------------------------------------------------------
(* Operations *)

Key(clazz, httpMethod, path, handler) ==
  [clazz |-> clazz, httpMethod |-> httpMethod, path |-> path,
   handler |-> handler]

\* A registration call: it makes no host-framework call and returns.
Registered ==
  /\ routers = <<>> \/ late < MaxLate
  /\ late' = IF routers = <<>> THEN late ELSE late + 1
  /\ trace' = <<>>
  /\ outcome' = NoOutcome
  /\ UNCHANGED <<routers, app>>

addController(clazz, root) ==
  /\ Registered
  /\ UNCHANGED overwritten
  /\ controllerMap' = SetController(controllerMap, clazz, root)
  /\ UNCHANGED <<routeMap, controllerMiddlewareMap, routeMiddlewareMap,
                 routerMap, parentMap>>

addControllerMiddleware(clazz, middleware) ==
  /\ Registered
  /\ UNCHANGED overwritten
  /\ controllerMiddlewareMap' =
       [controllerMiddlewareMap EXCEPT ![clazz] = Present(middleware)]
  /\ UNCHANGED <<controllerMap, routeMap, routeMiddlewareMap, routerMap,
                 parentMap>>

addParent(child, parent) ==
  /\ Registered
  /\ UNCHANGED overwritten
  /\ parentMap' = SetParent(parentMap, child, parent)
  /\ UNCHANGED <<controllerMap, routeMap, controllerMiddlewareMap,
                 routeMiddlewareMap, routerMap>>

addRoute(clazz, httpMethod, path, handler) ==
  /\ Registered
  /\ routeMap' =
       [routeMap EXCEPT ![clazz] =
          Present(SetRoute(IF @.has THEN @.val ELSE <<>>,
                           httpMethod, path, handler))]
  /\ overwritten' =
       (overwritten \ {Key(clazz, httpMethod, path, handler)})
       \cup {Key(clazz, httpMethod, path, g) :
               g \in Replaced(routeMap[clazz].val, httpMethod, path, handler)}
  /\ UNCHANGED <<controllerMap, controllerMiddlewareMap, routeMiddlewareMap,
                 routerMap, parentMap>>

addRouteMiddleware(route, middleware) ==
  /\ Registered
  /\ UNCHANGED overwritten
  /\ routeMiddlewareMap' =
       [routeMiddlewareMap EXCEPT ![route] = Present(middleware)]
  /\ UNCHANGED <<controllerMap, routeMap, controllerMiddlewareMap, routerMap,
                 parentMap>>

\* applyRoutes clearing the registration tables once it has assembled them.
ApplyRoutes_ThenClear ==
  \E done \in {applyRoutes(Assembly, Registry)} :
     /\ Len(done.routers) <= MaxRouters
     /\ routers' = done.routers
     /\ routerMap' = done.routerMap
     /\ app' = done.app
     /\ trace' = done.trace
     /\ outcome' = done.error
     /\ controllerMap' = <<>>
     /\ parentMap' = <<>>
     /\ routeMap' = [c \in Classes |-> Absent]
     /\ controllerMiddlewareMap' = [c \in Classes |-> Absent]
     /\ routeMiddlewareMap' = [h \in Handlers |-> Absent]
     /\ UNCHANGED <<overwritten, late>>

ApplyRoutes ==
  \E done \in {applyRoutes(Assembly, Registry)} :
     /\ Len(done.routers) <= MaxRouters
     /\ routers' = done.routers
     /\ routerMap' = done.routerMap
     /\ app' = done.app
     /\ trace' = done.trace
     /\ outcome' = done.error
     /\ UNCHANGED <<controllerMap, routeMap, controllerMiddlewareMap,
                    routeMiddlewareMap, parentMap, overwritten, late>>

\* reset without parentMap.clear().
reset_KeepsParents ==
  /\ routeMap' = [c \in Classes |-> Absent]
  /\ controllerMap' = <<>>
  /\ controllerMiddlewareMap' = [c \in Classes |-> Absent]
  /\ routeMiddlewareMap' = [h \in Handlers |-> Absent]
  /\ routerMap' = [c \in Classes |-> NoRouter]
  /\ trace' = <<>>
  /\ outcome' = [NoOutcome EXCEPT !.status = "reset"]
  /\ overwritten' = {}
  /\ UNCHANGED <<parentMap, routers, app, late>>

\* reset without routerMap.clear().
reset_KeepsRouters ==
  /\ routeMap' = [c \in Classes |-> Absent]
  /\ controllerMap' = <<>>
  /\ controllerMiddlewareMap' = [c \in Classes |-> Absent]
  /\ routeMiddlewareMap' = [h \in Handlers |-> Absent]
  /\ parentMap' = <<>>
  /\ trace' = <<>>
  /\ outcome' = [NoOutcome EXCEPT !.status = "reset"]
  /\ overwritten' = {}
  /\ UNCHANGED <<routerMap, routers, app, late>>

reset ==
  /\ routeMap' = [c \in Classes |-> Absent]
  /\ controllerMap' = <<>>
  /\ controllerMiddlewareMap' = [c \in Classes |-> Absent]
  /\ routeMiddlewareMap' = [h \in Handlers |-> Absent]
  /\ routerMap' = [c \in Classes |-> NoRouter]
  /\ parentMap' = <<>>
  /\ trace' = <<>>
  /\ outcome' = [NoOutcome EXCEPT !.status = "reset"]
  /\ overwritten' = {}
  /\ UNCHANGED <<routers, app, late>>

Init ==
  /\ controllerMap = <<>>
  /\ routeMap = [c \in Classes |-> Absent]
  /\ controllerMiddlewareMap = [c \in Classes |-> Absent]
  /\ routeMiddlewareMap = [h \in Handlers |-> Absent]
  /\ routerMap = [c \in Classes |-> NoRouter]
  /\ parentMap = <<>>
  /\ routers = <<>>
  /\ app = <<>>
  /\ trace = <<>>
  /\ outcome = NoOutcome
  /\ overwritten = {}
  /\ late = 0

\* Controllers, their parents and their middleware: every class has its own
\* root and at most the one route GET /x -> h1.
Next ==
  \/ \E clazz \in Controllers : addController(clazz, RootOf[clazz])
  \/ \E clazz \in Controllers : addControllerMiddleware(clazz, <<"M">>)
  \/ \E child \in Controllers, parent \in Classes : addParent(child, parent)
  \/ \E clazz \in Controllers : addRoute(clazz, "get", "/x", "h1")
  \/ addRouteMiddleware("h1", <<"N">>)
  \/ ApplyRoutes
  \/ reset

Spec == Init /\ [][Next]_vars

\* The routes and the middleware of the one controller A.
NextRoutes ==
  \/ addController("A", "/a")
  \/ \E middleware \in CtrlMiddleware :
       addControllerMiddleware("A", middleware)
  \/ \E httpMethod \in Methods, path \in Paths, handler \in Handlers :
       addRoute("A", httpMethod, path, handler)
  \/ \E route \in Handlers, middleware \in RouteMiddleware :
       addRouteMiddleware(route, middleware)
  \/ ApplyRoutes
  \/ reset

SpecRoutes == Init /\ [][NextRoutes]_vars

\* Parent declarations on any class, registered as a controller or not,
\* over the controllers A and B, each with the one route GET /x -> h1.
NextParents ==
  \/ \E clazz \in Controllers : addController(clazz, RootOf[clazz])
  \/ addControllerMiddleware("A", <<"M">>)
  \/ \E child \in Classes, parent \in Classes : addParent(child, parent)
  \/ \E clazz \in Controllers : addRoute(clazz, "get", "/x", "h1")
  \/ ApplyRoutes
  \/ reset

SpecParents == Init /\ [][NextParents]_vars

----------------------------------------------------------------------------
(* Observations *)

\* The last operation was an applyRoutes call (which returned or raised).
Applied == outcome.status \notin {"none", "reset"}
Raised == Applied /\ outcome.status # "returned"

HasRoutes(clazz) == routeMap[clazz].has /\ routeMap[clazz].val # <<>>
\* The classes Pass 1 builds a router for.
Assembled(clazz) == HasController(controllerMap, clazz) /\ HasRoutes(clazz)
ParentOf(child) ==
  parentMap[CHOOSE i \in 1..Len(parentMap) : parentMap[i].child = child].parent
NonEmptyMiddleware(clazz) ==
  /\ controllerMiddlewareMap[clazz].has
  /\ Len(controllerMiddlewareMap[clazz].val) > 0

StackOf(router) == IF router = AppRouter THEN app ELSE routers[router]
\* Where `router` is mounted: <<target, position in the target's stack>>.
Mounts(router) ==
  {ti \in (0..Len(routers)) \X (1..(Len(app) + Len(trace) + 1)) :
     /\ ti[2] <= Len(StackOf(ti[1]))
     /\ StackOf(ti[1])[ti[2]].kind = "mount"
     /\ StackOf(ti[1])[ti[2]].router = router}
MountedOnApp(router) == \E ti \in Mounts(router) : ti[1] = AppRouter

\* The positions of the trace a predicate holds at.
TraceCalls(by) == {k \in 1..Len(trace) : trace[k].by = by}

----------------------------------------------------------------------------
(* C1 *)

\* What C1 says of the state an applyRoutes call returns in: a child's router
\* is mounted exactly once, on its parent's router, at the child's own root;
\* a parentless controller's router is mounted exactly once, on the
\* application router, at its root, by Pass 1.
MountedAsDeclared(clazz) ==
  LET router == routerMap[clazz]
      root == GetController(controllerMap, clazz).root
  IN IF HasParent(parentMap, clazz)
     THEN /\ routerMap[ParentOf(clazz)] # NoRouter
          /\ \E ti \in Mounts(router) :
                /\ Mounts(router) = {ti}
                /\ ti[1] = routerMap[ParentOf(clazz)]
                /\ StackOf(ti[1])[ti[2]].path = root
     ELSE /\ \E ti \in Mounts(router) :
                /\ Mounts(router) = {ti}
                /\ ti[1] = AppRouter
                /\ app[ti[2]].path = root
          /\ \E k \in TraceCalls("processController") :
                trace[k] = Call("processController", AppRouter,
                                MountLayer(root, router))

\* C1 (as claimed): in EVERY reachable state the router of a controller that
\* has a ParentRelation entry is not mounted on the application router, and
\* after an applyRoutes call that returns every router is mounted as declared.
C1_NeverOnAppInAnyState ==
  /\ \A clazz \in Classes :
        HasParent(parentMap, clazz) /\ routerMap[clazz] # NoRouter
          => ~MountedOnApp(routerMap[clazz])
  /\ outcome.status = "returned" =>
        \A clazz \in Classes :
           routerMap[clazz] # NoRouter => MountedAsDeclared(clazz)

\* C1 (amended): in every state an applyRoutes call ends in, returning or
\* raising, the router of a controller that has a ParentRelation entry is
\* not mounted on the application router; after a call that returns, it is
\* mounted exactly once, on its parent's router, at the child's own root,
\* and a parentless controller's router is mounted exactly once on the
\* application router at its root, by Pass 1.
C1_DeferredMount ==
  /\ Applied =>
        \A clazz \in Classes :
           HasParent(parentMap, clazz) /\ routerMap[clazz] # NoRouter
             => ~MountedOnApp(routerMap[clazz])
  /\ outcome.status = "returned" =>
        \A clazz \in Classes :
           routerMap[clazz] # NoRouter => MountedAsDeclared(clazz)

\* B is mounted under A, A on the application router, after a call that
\* returned.
C1_Witness ==
  /\ outcome.status = "returned"
  /\ HasParent(parentMap, "B") /\ ParentOf("B") = "A"
  /\ ~HasParent(parentMap, "A")
  /\ routerMap["A"] # NoRouter /\ routerMap["B"] # NoRouter
  /\ MountedOnApp(routerMap["A"])

----------------------------------------------------------------------------
(* C2 *)

\* The routers the last applyRoutes call constructed, and the routers
\* routerMap holds for the classes that have a ControllerSpec and routes.
Created == {trace[k].target : k \in {j \in 1..Len(trace) :
                                       trace[j].layer.kind = "create"}}
OwnedRouters == {routerMap[clazz] : clazz \in {c \in Classes : Assembled(c)}}

\* C2: after applyRoutes (returning or raising), a controller with a
\* ControllerSpec and no routes has no RouterInstance; every router the call
\* constructed belongs to a controller that has routes, and every call the
\* assembly made (middleware, handler, mount) has one of those routers or the
\* application router as its target and one of those routers as the router
\* it mounts: none registers anything for, mounts, or mounts onto the
\* controller without routes.
C2_NoRoutesNoRouter ==
  Applied =>
    /\ \A clazz \in Classes :
          HasController(controllerMap, clazz) /\ ~HasRoutes(clazz)
            => routerMap[clazz] = NoRouter
    /\ Created = OwnedRouters
    /\ Cardinality(Created) = Cardinality({c \in Classes : Assembled(c)})
    /\ \A k \in 1..Len(trace) :
          /\ trace[k].target \in Created \cup {AppRouter}
          /\ trace[k].layer.kind = "mount" => trace[k].layer.router \in Created

\* A controller without routes that has controller middleware and is named
\* as the parent of a controller the same call built a router for.
C2_Witness ==
  /\ Applied
  /\ \E clazz \in Classes :
        /\ HasController(controllerMap, clazz) /\ ~HasRoutes(clazz)
        /\ NonEmptyMiddleware(clazz)
        /\ \E i \in 1..Len(parentMap) :
              /\ parentMap[i].parent = clazz
              /\ routerMap[parentMap[i].child] \in Created

----------------------------------------------------------------------------
(* Dispatch by the host framework, as the specification describes it: a    *)
(* request walks a router's stack in registration order; router-wide       *)
(* middleware sees every request, path-scoped middleware every request for *)
(* its path whatever the method, a handler the requests for its method and *)
(* path, and the first handler that matches ends the walk.                 *)

Matches(layer, httpMethod, path) ==
  \/ layer.kind = "use" /\ layer.path \in {"", path}
  \/ layer.kind = "route" /\ layer.method = httpMethod /\ layer.path = path

\* The layers a request for httpMethod + path runs, in order.
Traversed(stack, httpMethod, path) ==
  LET handled == {i \in 1..Len(stack) :
                    stack[i].kind = "route" /\ Matches(stack[i], httpMethod, path)}
      last == IF handled = {} THEN Len(stack)
              ELSE CHOOSE i \in handled : \A j \in handled : i <= j
      Hit(layer) == Matches(layer, httpMethod, path)
  IN SelectSeq(SubSeq(stack, 1, last), Hit)

----------------------------------------------------------------------------
(* C3 *)

\* C3: on the router Pass 1 builds for a controller with non-empty controller
\* middleware M, M is the first registration, router-wide; for each route
\* (method, path, handler) whose handler has non-empty route middleware N, N
\* is registered scoped to the path and the handler for method + path is the
\* very next registration; a request for method + path runs M first, then N,
\* and ends in that handler.
C3_MiddlewareOrder ==
  Applied =>
    \A clazz \in Classes :
      routerMap[clazz] \in Created /\ NonEmptyMiddleware(clazz) =>
        LET stack == routers[routerMap[clazz]]
            M == UseLayer(controllerMiddlewareMap[clazz].val)
            routeSpec == routeMap[clazz].val
        IN /\ stack[1] = M
           /\ \A i \in 1..Len(routeSpec) : \A j \in 1..Len(routeSpec[i].spec) :
                LET httpMethod == routeSpec[i].httpMethod
                    path == routeSpec[i].spec[j].path
                    handler == routeSpec[i].spec[j].handler
                    N == routeMiddlewareMap[handler]
                    run == Traversed(stack, httpMethod, path)
                IN N.has /\ Len(N.val) > 0 =>
                     /\ \E k \in 2..(Len(stack) - 1) :
                           /\ stack[k] = UsePathLayer(path, N.val)
                           /\ stack[k + 1] = RouteLayer(httpMethod, path, handler)
                     /\ run[1] = M
                     /\ run[Len(run)] = RouteLayer(httpMethod, path, handler)
                     /\ \E k \in 2..(Len(run) - 1) :
                           run[k] = UsePathLayer(path, N.val)

\* A has controller middleware M and two routes, and the handler of one of
\* them has route middleware N.
C3_Witness ==
  /\ Applied
  /\ routerMap["A"] \in Created
  /\ NonEmptyMiddleware("A")
  /\ Len(routeMap["A"].val) = 2
  /\ \E i \in 1..2 :
        LET N == routeMiddlewareMap[routeMap["A"].val[i].spec[1].handler]
        IN N.has /\ Len(N.val) > 0

----------------------------------------------------------------------------
(* C4, C5, C9: the errors of Pass 2 *)

\* Pass 1 builds a router for both classes of the k-th ParentRelation pair.
Resolvable(k) ==
  Assembled(parentMap[k].parent) /\ Assembled(parentMap[k].child)
\* The first pair, in registration order, Pass 2 cannot resolve (0: none).
FirstUnresolvable ==
  IF \A k \in 1..Len(parentMap) : Resolvable(k) THEN 0
  ELSE CHOOSE k \in 1..Len(parentMap) :
         ~Resolvable(k) /\ \A j \in 1..(k - 1) : Resolvable(j)
\* The calls wiring the first n pairs makes: one mount each, and one
\* middleware registration for each parent with non-empty middleware.
WiringCalls(n) ==
  n + Cardinality({k \in 1..n : NonEmptyMiddleware(parentMap[k].parent)})
\* Some call of Pass 2 registered middleware on `router` or mounted it.
WiredInPass2(router) ==
  \E t \in TraceCalls("processParents") :
     \/ trace[t].layer.kind = "use" /\ trace[t].target = router
     \/ trace[t].layer.kind = "mount" /\ trace[t].layer.router = router

\* C4: when the first pair Pass 2 cannot resolve has a parent without an
\* assembled router (never registered as a controller, or without routes),
\* applyRoutes raises ParentControllerError carrying that child and that
\* parent, also when the child has no router either; only the pairs before
\* it were wired, and the child's router, if it has one, is mounted nowhere.
C4_ParentResolutionError ==
  Applied =>
    \A k \in 1..Len(parentMap) :
      k = FirstUnresolvable /\ ~Assembled(parentMap[k].parent) =>
        /\ outcome = ParentControllerError(parentMap[k].child,
                                           parentMap[k].parent)
        /\ Cardinality(TraceCalls("processParents")) = WiringCalls(k - 1)
        /\ routerMap[parentMap[k].child] # NoRouter =>
             /\ Mounts(routerMap[parentMap[k].child]) = {}
             /\ ~WiredInPass2(routerMap[parentMap[k].child])

\* The parent is a registered controller without routes and the child has no
\* router either.
C4_Witness ==
  /\ outcome.status = "ParentControllerError"
  /\ HasController(controllerMap, outcome.parent)
  /\ routerMap[outcome.child] = NoRouter
  /\ trace # <<>>

\* C5 (as claimed): for EVERY pair whose parent has an assembled router and
\* whose child has none, applyRoutes raises UnregisteredControllerError
\* carrying that child.
C5_EveryUnregisteredChildRaised ==
  Applied =>
    \A k \in 1..Len(parentMap) :
      Assembled(parentMap[k].parent) /\ ~Assembled(parentMap[k].child) =>
        /\ outcome = UnregisteredControllerError(parentMap[k].child)
        /\ routerMap[parentMap[k].child] = NoRouter

\* C5 (amended): when the first pair Pass 2 cannot resolve has a parent with
\* an assembled router and a child without one (no routes, or no
\* ControllerSpec), applyRoutes raises UnregisteredControllerError carrying
\* that child; only the pairs before it were wired: the parent's middleware
\* is registered nowhere for this pair and nothing is mounted for it.
C5_UnregisteredChildError ==
  Applied =>
    \A k \in 1..Len(parentMap) :
      /\ k = FirstUnresolvable
      /\ Assembled(parentMap[k].parent)
      /\ ~Assembled(parentMap[k].child)
      => /\ outcome = UnregisteredControllerError(parentMap[k].child)
         /\ routerMap[parentMap[k].child] = NoRouter
         /\ Cardinality(TraceCalls("processParents")) = WiringCalls(k - 1)
         /\ \A t \in TraceCalls("processParents") :
               /\ trace[t].layer.kind = "mount"
               /\ trace[t].target = routerMap[parentMap[k].parent]
               => \E j \in 1..(k - 1) :
                    trace[t].layer.router = routerMap[parentMap[j].child]

\* The child has routes and no ControllerSpec, and its parent has middleware.
C5_Witness ==
  /\ outcome.status = "UnregisteredControllerError"
  /\ HasRoutes(outcome.child)
  /\ ~HasController(controllerMap, outcome.child)
  /\ NonEmptyMiddleware(ParentOf(outcome.child))

\* C9: applyRoutes raises exactly when some pair cannot be resolved; the
\* error is that of the first such pair in registration order, and no later
\* pair has middleware transferred or a mount performed.
C9_FailureIsFatal ==
  Applied =>
    /\ Raised <=> FirstUnresolvable # 0
    /\ Raised =>
         /\ outcome.child = parentMap[FirstUnresolvable].child
         /\ Cardinality(TraceCalls("processParents"))
              = WiringCalls(FirstUnresolvable - 1)
         /\ \A k \in (FirstUnresolvable + 1)..Len(parentMap) :
               routerMap[parentMap[k].child] # NoRouter =>
                 ~WiredInPass2(routerMap[parentMap[k].child])

\* A pair that could have been wired follows the one that failed.
C9_Witness ==
  /\ Raised
  /\ \E k \in (FirstUnresolvable + 1)..Len(parentMap) : Resolvable(k)

----------------------------------------------------------------------------
(* C6 *)

\* The positions of `stack` that register a handler for httpMethod + path,
\* and those that register middleware scoped to path.
HandlerLayers(stack, httpMethod, path) ==
  {i \in 1..Len(stack) :
     /\ stack[i].kind = "route"
     /\ stack[i].method = httpMethod
     /\ stack[i].path = path}
PathMiddlewareLayers(stack, path) ==
  {i \in 1..Len(stack) : stack[i].kind = "use" /\ stack[i].path = path}
\* The entries of a RouteSpec registered for path whose handler has
\* non-empty route middleware.
EntriesWithMiddleware(routeSpec, path) ==
  {ij \in (1..Len(routeSpec)) \X (1..Cardinality(Paths)) :
     /\ ij[2] <= Len(routeSpec[ij[1]].spec)
     /\ routeSpec[ij[1]].spec[ij[2]].path = path
     /\ LET N == routeMiddlewareMap[routeSpec[ij[1]].spec[ij[2]].handler]
        IN N.has /\ Len(N.val) > 0}

\* C6: when a later addRoute replaced handler h1 on its method + path,
\* the router applyRoutes builds has exactly one handler registration for
\* that method + path and it is not h1; the path-scoped middleware
\* registrations for the path are one per current entry of the path whose
\* handler has route middleware: the replaced h1 accounts for none.
C6_LastHandlerWins ==
  Applied =>
    \A o \in overwritten :
      routerMap[o.clazz] \in Created =>
        LET stack == routers[routerMap[o.clazz]]
            regs == HandlerLayers(stack, o.httpMethod, o.path)
        IN /\ Cardinality(regs) = 1
           /\ \A i \in regs :
                 /\ stack[i].fns # <<o.handler>>
                 /\ Replaced(routeMap[o.clazz].val, o.httpMethod, o.path,
                             o.handler) = {stack[i].fns[1]}
           /\ Cardinality(PathMiddlewareLayers(stack, o.path))
                = Cardinality(EntriesWithMiddleware(routeMap[o.clazz].val,
                                                    o.path))

\* h1, which has route middleware, was replaced by a handler that has none,
\* and the path has no other entry: no middleware is registered for the path.
C6_Witness ==
  /\ Applied
  /\ routerMap["A"] \in Created
  /\ \E o \in overwritten :
        /\ routeMiddlewareMap[o.handler].has
        /\ Len(routeMiddlewareMap[o.handler].val) > 0
        /\ EntriesWithMiddleware(routeMap["A"].val, o.path) = {}

----------------------------------------------------------------------------
(* C7 *)

\* The state applyRoutes writes, as it is before any assembly: no router,
\* an empty routerMap and a fresh application router.
FreshAssembly ==
  [routers |-> <<>>, routerMap |-> [c \in Classes |-> NoRouter],
   app |-> <<>>, trace |-> <<>>, error |-> NoOutcome]

\* A layer and a call with their routers renumbered by -off.
ShiftLayer(layer, off) ==
  [layer EXCEPT !.router = IF @ = NoRouter THEN @ ELSE @ - off]
ShiftCall(call, off) ==
  [call EXCEPT !.target = IF @ = AppRouter THEN @ ELSE @ - off,
               !.layer = ShiftLayer(@, off)]

\* C7: reset leaves all six tables empty, as they are initially; and what an
\* applyRoutes call does depends on the five registration tables alone: its
\* outcome, its calls, the stacks of the routers it builds and the mounts it
\* adds to the application router are those of the same assembly run first,
\* on a registry never used before and a fresh application router.
C7_ResetRestoresInitialRegistry ==
  /\ outcome.status = "reset" =>
        /\ controllerMap = <<>>
        /\ parentMap = <<>>
        /\ routeMap = [c \in Classes |-> Absent]
        /\ controllerMiddlewareMap = [c \in Classes |-> Absent]
        /\ routeMiddlewareMap = [h \in Handlers |-> Absent]
        /\ routerMap = [c \in Classes |-> NoRouter]
  /\ Applied =>
        LET first == applyRoutes(FreshAssembly, Registry)
            off == Len(routers) - Len(first.routers)
        IN /\ off >= 0
           /\ outcome = first.error
           /\ Len(trace) = Len(first.trace)
           /\ \A k \in 1..Len(trace) :
                 ShiftCall(trace[k], off) = first.trace[k]
           /\ \A r \in 1..Len(first.routers) :
                 /\ Len(routers[r + off]) = Len(first.routers[r])
                 /\ \A i \in 1..Len(first.routers[r]) :
                       ShiftLayer(routers[r + off][i], off) = first.routers[r][i]
           /\ \A i \in 1..Len(first.app) :
                 ShiftLayer(app[Len(app) - Len(first.app) + i], off)
                   = first.app[i]
           /\ \A c \in Classes :
                 first.routerMap[c] # NoRouter
                   => routerMap[c] = first.routerMap[c] + off

\* reset after an assembly that built routers.
C7_Witness ==
  /\ outcome.status = "reset"
  /\ routers # <<>>
  /\ app # <<>>

----------------------------------------------------------------------------
(* C8 *)

\* Pass 2 registers the middleware of pair k's parent on the child's router
\* exactly once, after every registration Pass 1 made on that router (the
\* child's own controller middleware, route middleware, handlers) and as the
\* call right before the one that mounts the child's router on the parent's
\* at the child's root; it lands at the end of the child's stack, where only
\* mounts made afterwards follow it.
TransferredLast(k) ==
  LET C == routerMap[parentMap[k].child]
      P == routerMap[parentMap[k].parent]
      M == UseLayer(controllerMiddlewareMap[parentMap[k].parent].val)
      root == GetController(controllerMap, parentMap[k].child).root
      transfers == {t \in TraceCalls("processParents") :
                      trace[t].target = C /\ trace[t].layer.kind = "use"}
  IN \E t \in transfers :
       /\ transfers = {t}
       /\ trace[t].layer = M
       /\ \A u \in 1..Len(trace) :
             trace[u].target = C /\ trace[u].by # "processParents" => u < t
       /\ t < Len(trace)
       /\ trace[t + 1] = Call("processParents", P, MountLayer(root, C))
       /\ LET at == Cardinality({u \in 1..t :
                                   /\ trace[u].target = C
                                   /\ trace[u].layer.kind # "create"})
          IN /\ routers[C][at] = M
             /\ \A q \in (at + 1)..Len(routers[C]) :
                   routers[C][q].kind = "mount"

\* C8 as stated: for every pair (C, P) whose child C was assembled and whose
\* parent P has non-empty controller middleware, the middleware is
\* transferred last onto C's router, before the mount.
C8_EveryAssembledChild ==
  Applied =>
    \A k \in 1..Len(parentMap) :
      /\ Assembled(parentMap[k].child)
      /\ NonEmptyMiddleware(parentMap[k].parent)
      => TransferredLast(k)

\* C8: for every pair (C, P) that Pass 2 wires (it comes before any pair
\* Pass 2 cannot resolve) and whose parent P has non-empty controller
\* middleware, the middleware is transferred last onto C's router, right
\* before the mount.
C8_ParentMiddlewareAppendedLast ==
  Applied =>
    \A k \in 1..Len(parentMap) :
      /\ FirstUnresolvable = 0 \/ k < FirstUnresolvable
      /\ NonEmptyMiddleware(parentMap[k].parent)
      => TransferredLast(k)

\* B, with controller middleware and route middleware of its own, is wired
\* under A, which has controller middleware.
C8_Witness ==
  /\ outcome.status = "returned"
  /\ HasParent(parentMap, "B") /\ ParentOf("B") = "A"
  /\ NonEmptyMiddleware("A") /\ NonEmptyMiddleware("B")
  /\ routeMiddlewareMap["h1"].has
  /\ routerMap["B"] \in Created

----------------------------------------------------------------------------
(* C10 *)

\* The orders a sequence of entries with distinct keys can be registered in.
SeqPerms(seq) ==
  {[i \in 1..Len(seq) |-> seq[f[i]]] : f \in Permutations(1..Len(seq))}
\* A RouteSpec with its methods, and the paths of each method, in any order.
RouteSpecPerms(routeSpec) ==
  UNION {{g \in [1..Len(ms) -> UNION {SeqPerms(ms[i].spec) : i \in 1..Len(ms)}] :
            \A i \in 1..Len(ms) : g[i] \in SeqPerms(ms[i].spec)}
         : ms \in SeqPerms(routeSpec)}
\* The registries the same registration calls, none writing a key twice,
\* leave when made in another order.
Reorderings ==
  {[Registry EXCEPT !.controllerMap = cm, !.parentMap = pm, !.routeMap = rm] :
     cm \in SeqPerms(controllerMap), pm \in SeqPerms(parentMap),
     rm \in {f \in [Classes -> UNION {{Absent} \cup
                                       {Present(ms) : ms \in SeqPerms(routeMap[c].val)}
                                       : c \in Classes}] :
               \A c \in Classes :
                  IF routeMap[c].has
                  THEN f[c].has /\ f[c].val \in SeqPerms(routeMap[c].val)
                  ELSE f[c] = Absent}}

\* The mount edges of an assembly: <<target, path, mounted controller>>, the
\* target being "app" or the controller the target router belongs to.
OwnerOf(router, rm) ==
  IF router = AppRouter THEN "app"
  ELSE CHOOSE c \in Classes : rm[c] = router
MountEdges(calls, rm) ==
  {<<OwnerOf(calls[k].target, rm), calls[k].layer.path,
     OwnerOf(calls[k].layer.router, rm)>> :
     k \in {j \in 1..Len(calls) : calls[j].layer.kind = "mount"}}

\* C10: had the registration calls been made in any other order, applyRoutes
\* would have failed if it failed and returned if it returned, and on return
\* would have made the same set of mount edges.
C10_RegistrationOrderInsensitive ==
  Applied =>
    \A reg \in Reorderings :
      LET other == applyRoutes(FreshAssembly, reg)
      IN /\ (other.error.status = "returned") = (outcome.status = "returned")
         /\ outcome.status = "returned" =>
              MountEdges(other.trace, other.routerMap)
                = MountEdges(trace, routerMap)

\* The child B was registered as a controller before its parent A.
C10_Witness ==
  /\ outcome.status = "returned"
  /\ Len(controllerMap) = 2 /\ controllerMap[1].clazz = "B"
  /\ HasParent(parentMap, "B") /\ ParentOf("B") = "A"
  /\ <<"A", "/b", "B">> \in MountEdges(trace, routerMap)

----------------------------------------------------------------------------
(* C11 *)

\* The router-wide middleware registrations Pass 1 made on a router.
RouterWideInPass1(router) ==
  {k \in 1..Len(trace) :
     /\ trace[k].target = router
     /\ trace[k].by # "processParents"
     /\ trace[k].layer.kind = "use"
     /\ trace[k].layer.path = ""}

\* C11: for a controller applyRoutes built a router for, whose controller
\* middleware entry is absent or an empty sequence, Pass 1 makes no
\* router-wide middleware registration on that router.
C11_NoMiddlewareNoRegistration ==
  Applied =>
    \A clazz \in Classes :
      routerMap[clazz] \in Created /\ ~NonEmptyMiddleware(clazz)
        => RouterWideInPass1(routerMap[clazz]) = {}

\* The half of C11 that holds: no entry, no router-wide registration.
C11_AbsentEntryNoRegistration ==
  Applied =>
    \A clazz \in Classes :
      routerMap[clazz] \in Created /\ ~controllerMiddlewareMap[clazz].has
        => RouterWideInPass1(routerMap[clazz]) = {}

\* A's entry is the empty sequence and Pass 1 called use with it on A's
\* router, before anything else.
C11_EmptyEntryRegistered ==
  /\ Applied
  /\ routerMap["A"] \in Created
  /\ controllerMiddlewareMap["A"] = Present(<<>>)
  /\ trace[2] = Call("processControllerMiddleware", routerMap["A"], UseLayer(<<>>))

----------------------------------------------------------------------------
(* C12 *)

\* The routes of a controller as registered: <<httpMethod, path, handler>>.
RoutesOf(clazz) ==
  UNION {{<<routeMap[clazz].val[i].httpMethod,
            routeMap[clazz].val[i].spec[j].path,
            routeMap[clazz].val[i].spec[j].handler>> :
            j \in 1..Len(routeMap[clazz].val[i].spec)} :
         i \in 1..Len(routeMap[clazz].val)}

HasRouteMiddleware(handler) ==
  routeMiddlewareMap[handler].has /\ Len(routeMiddlewareMap[handler].val) > 0

\* C12: when a controller has handler h1, with route middleware N, and a
\* different handler h2, with none, on the same path under different
\* methods, a request for h2's method and path on the assembled router does
\* not run N.
C12_RouteMiddlewarePerHandler ==
  Applied =>
    \A clazz \in Classes : routerMap[clazz] \in Created =>
      \A r1 \in RoutesOf(clazz), r2 \in RoutesOf(clazz) :
        /\ r1[1] # r2[1] /\ r1[2] = r2[2] /\ r1[3] # r2[3]
        /\ HasRouteMiddleware(r1[3]) /\ ~HasRouteMiddleware(r2[3])
        => LET run == Traversed(routers[routerMap[clazz]], r2[1], r2[2])
           IN /\ run[Len(run)] = RouteLayer(r2[1], r2[2], r2[3])
              /\ \A k \in 1..Len(run) :
                    run[k] # UsePathLayer(r1[2], routeMiddlewareMap[r1[3]].val)

\* GET /x is h1 with route middleware N, POST /x is h2 with none, and a
\* POST /x request runs N before it reaches h2.
C12_OtherHandlerRunsMiddleware ==
  /\ Applied
  /\ routerMap["A"] \in Created
  /\ RoutesOf("A") = {<<"get", "/x", "h1">>, <<"post", "/x", "h2">>}
  /\ HasRouteMiddleware("h1") /\ ~HasRouteMiddleware("h2")
  /\ ~NonEmptyMiddleware("A") /\ ~controllerMiddlewareMap["A"].has
  /\ Traversed(routers[routerMap["A"]], "post", "/x")
       = <<UsePathLayer("/x", routeMiddlewareMap["h1"].val),
           RouteLayer("post", "/x", "h2")>>

----------------------------------------------------------------------------
(* C13 *)

\* The ControllerSpec entries Pass 1 builds a router for, in registration
\* order.
AssembledInOrder ==
  LET Built(entry) == HasRoutes(entry.clazz)
  IN SelectSeq(controllerMap, Built)
\* The createRouter calls and the Pass-2 mounts of the last applyRoutes, in
\* call order.
CreateCalls ==
  LET IsCreate(call) == call.layer.kind = "create"
  IN SelectSeq(trace, IsCreate)
Pass2Mounts ==
  LET IsWiring(call) == call.by = "processParents" /\ call.layer.kind = "mount"
  IN SelectSeq(trace, IsWiring)
\* The router a Pass-1 call is about: its target, or the router it mounts on
\* the application router.
RouterOf(call) ==
  IF call.target = AppRouter THEN call.layer.router ELSE call.target

\* C13: in every applyRoutes call, returning or raising, each call made by
\* Pass 1 comes before each call made by Pass 2; Pass 1 builds the routers of
\* the controllers with routes in ControllerSpec registration order, one
\* controller at a time (each Pass-1 call is about the router created last),
\* and all of them whatever Pass 2 does; Pass 2 mounts the pairs it wires in
\* ParentRelation registration order.
C13_PassesInSequence ==
  Applied =>
    /\ \A i \in 1..Len(trace), j \in 1..Len(trace) :
          trace[i].by # "processParents" /\ trace[j].by = "processParents"
            => i < j
    /\ Len(CreateCalls) = Len(AssembledInOrder)
    /\ \A i \in 1..Len(AssembledInOrder) :
          CreateCalls[i].target = routerMap[AssembledInOrder[i].clazz]
    /\ \A k \in 1..Len(trace) : trace[k].by # "processParents" =>
          /\ \E j \in 1..k : trace[j] = Call("processController",
                                             RouterOf(trace[k]), CreateLayer)
          /\ \A j \in 1..k : trace[j].layer.kind = "create"
                               => trace[j].target <= RouterOf(trace[k])
    /\ LET n == IF FirstUnresolvable = 0 THEN Len(parentMap)
                ELSE FirstUnresolvable - 1
       IN /\ Len(Pass2Mounts) = n
          /\ \A k \in 1..n :
                Pass2Mounts[k] =
                  Call("processParents", routerMap[parentMap[k].parent],
                       MountLayer(GetController(controllerMap,
                                                parentMap[k].child).root,
                                  routerMap[parentMap[k].child]))

\* Two controllers were built and two pairs wired.
C13_Witness ==
  /\ outcome.status = "returned"
  /\ Len(AssembledInOrder) = 2
  /\ Len(Pass2Mounts) = 2
  /\ parentMap[1].child # parentMap[2].child

----------------------------------------------------------------------------
(* C14 *)

\* Which of the five registration tables a step changes.
ChangedTables ==
  <<controllerMap' # controllerMap, routeMap' # routeMap,
    controllerMiddlewareMap' # controllerMiddlewareMap,
    routeMiddlewareMap' # routeMiddlewareMap, parentMap' # parentMap>>

\* What a change of each registration table amounts to: one write of the
\* operation that owns the table.
OwnWrite ==
  <<\E clazz \in Classes, root \in {RootOf[c] : c \in Controllers} :
       controllerMap' = SetController(controllerMap, clazz, root),
    \E clazz \in Classes, httpMethod \in Methods, path \in Paths,
       handler \in Handlers :
       routeMap' = [routeMap EXCEPT ![clazz] =
                      Present(SetRoute(IF @.has THEN @.val ELSE <<>>,
                                       httpMethod, path, handler))],
    \E clazz \in Classes, middleware \in CtrlMiddleware :
       controllerMiddlewareMap' =
         [controllerMiddlewareMap EXCEPT ![clazz] = Present(middleware)],
    \E route \in Handlers, middleware \in RouteMiddleware :
       routeMiddlewareMap' =
         [routeMiddlewareMap EXCEPT ![route] = Present(middleware)],
    \E child \in Classes, parent \in Classes :
       parentMap' = SetParent(parentMap, child, parent)>>

\* C14: a step that is an applyRoutes call, returning or raising, leaves the
\* five registration tables as they were (of the six tables it can change
\* routerMap only); a step that is a registration call leaves routerMap as
\* it was and changes at most one of the five registration tables, by one
\* write of the operation that owns that table.
C14_Frame ==
  [][/\ outcome'.status \notin {"none", "reset"}
          => \A i \in 1..5 : ~ChangedTables[i]
     /\ outcome'.status = "none"
          => /\ routerMap' = routerMap
             /\ \A i \in 1..5 : ChangedTables[i] => OwnWrite[i]
             /\ \A i \in 1..5, j \in 1..5 :
                   ChangedTables[i] /\ ChangedTables[j] => i = j]_vars

\* applyRoutes raised with all five registration tables populated, and
\* recorded a router.
C14_Witness ==
  /\ Raised
  /\ controllerMap # <<>> /\ parentMap # <<>>
  /\ \E c \in Classes : routeMap[c].has
  /\ \E c \in Classes : controllerMiddlewareMap[c].has
  /\ \E h \in Handlers : routeMiddlewareMap[h].has
  /\ \E c \in Classes : routerMap[c] \in Created

----------------------------------------------------------------------------
(* C15 *)

\* All six tables are empty.
EmptyRegistry ==
  /\ controllerMap = <<>>
  /\ parentMap = <<>>
  /\ routeMap = [c \in Classes |-> Absent]
  /\ controllerMiddlewareMap = [c \in Classes |-> Absent]
  /\ routeMiddlewareMap = [h \in Handlers |-> Absent]
  /\ routerMap = [c \in Classes |-> NoRouter]

\* C15: every reset leaves the six tables empty, whatever they held, an
\* empty registry included; a reset right after a reset changes nothing; an
\* applyRoutes call right after a reset returns without constructing a
\* router or making any call: the routers and the application router's
\* stack stay as the earlier assembly left them.
C15_ResetIdempotent ==
  [][/\ outcome'.status = "reset" => EmptyRegistry'
     /\ outcome.status = "reset" /\ outcome'.status = "reset"
          => UNCHANGED vars
     /\ outcome.status = "reset" /\ outcome'.status \notin {"none", "reset"}
          => /\ outcome' = Returned
             /\ trace' = <<>>
             /\ UNCHANGED <<routers, app, tables>>]_vars

\* applyRoutes was called on the empty registry a reset left after an
\* assembly that had mounted a router on the application router.
C15_Witness ==
  /\ outcome = Returned
  /\ trace = <<>>
  /\ EmptyRegistry
  /\ \E i \in 1..Len(app) : app[i].kind = "mount"

----------------------------------------------------------------------------
(* C16 *)

\* The routers mounted on the routers of S (AppRouter: the application).
MountedOn(S) ==
  UNION {{StackOf(r)[i].router :
            i \in {j \in 1..Len(StackOf(r)) : StackOf(r)[j].kind = "mount"}} :
         r \in S}
\* The routers reachable from the routers of S through mount edges.
RECURSIVE ReachableFrom(_)
ReachableFrom(S) ==
  IF MountedOn(S) \subseteq S THEN S ELSE ReachableFrom(S \cup MountedOn(S))

\* C16: after an applyRoutes call that returns, every controller that has a
\* RouterInstance is mounted exactly once and is reachable from the
\* application router through mount edges, whatever ParentRelation holds.
C16_MountTree ==
  outcome.status = "returned" =>
    \A clazz \in Classes : routerMap[clazz] # NoRouter =>
      /\ routerMap[clazz] \in ReachableFrom({AppRouter})
      /\ Cardinality(Mounts(routerMap[clazz])) = 1

\* The half of C16 that holds: when following ParentRelation from any
\* controller ends at a controller without a parent, the mount graph is a
\* tree rooted at the application router.
RECURSIVE HasRoot(_, _)
HasRoot(clazz, fuel) ==
  \/ ~HasParent(parentMap, clazz)
  \/ fuel > 0 /\ HasRoot(ParentOf(clazz), fuel - 1)
C16_MountTreeWithoutCycles ==
  outcome.status = "returned"
    /\ (\A clazz \in Classes : HasRoot(clazz, Cardinality(Classes))) =>
    \A clazz \in Classes : routerMap[clazz] # NoRouter =>
      /\ routerMap[clazz] \in ReachableFrom({AppRouter})
      /\ Cardinality(Mounts(routerMap[clazz])) = 1

\* A is its own parent: applyRoutes returned, and A's router is mounted on
\* itself and on nothing else.
C16_SelfParentUnreachable ==
  /\ outcome.status = "returned"
  /\ HasParent(parentMap, "A") /\ ParentOf("A") = "A"
  /\ routerMap["A"] \in Created
  /\ \A ti \in Mounts(routerMap["A"]) : ti[1] = routerMap["A"]
  /\ Mounts(routerMap["A"]) # {}
  /\ routerMap["A"] \notin ReachableFrom({AppRouter})

----------------------------------------------------------------------------
(* C17 *)

\* C17: in every reachable state, a controller with a routerMap entry has a
\* ControllerSpec entry and a non-empty RouteSpec entry; and no applyRoutes
\* call ends reading the root of a child that has a router and no
\* ControllerSpec.
C17_RoutersHaveSpecs ==
  /\ \A clazz \in Classes :
        routerMap[clazz] # NoRouter
          => HasController(controllerMap, clazz) /\ HasRoutes(clazz)
  /\ outcome.status # "TypeError"

\* A registration call made after an assembly that had recorded the routers
\* of A and B, with a ParentRelation pair that cannot be resolved.
C17_Witness ==
  /\ late = 1
  /\ outcome = NoOutcome
  /\ routerMap["A"] # NoRouter /\ routerMap["B"] # NoRouter
  /\ \E k \in 1..Len(parentMap) : ~Resolvable(k)

----------------------------------------------------------------------------
(* C18 *)

\* The layers the calls of the last applyRoutes put on a router, in order.
LayersOn(target) ==
  LET Lands(call) == call.target = target /\ call.layer.kind # "create"
      calls == SelectSeq(trace, Lands)
  IN [i \in 1..Len(calls) |-> calls[i].layer]

\* C18: when applyRoutes raises, everything the call did before is still in
\* place: each controller with routes has the routerMap entry Pass 1
\* recorded, for a router the call created; each of them without a parent
\* was mounted on the application router at its root; each pair before the
\* failing one had its parent's middleware transferred and its mount made;
\* and every layer the call registered is where the call put it, on the
\* routers it built and at the end of the application router's stack.
C18_NoRollback ==
  Raised =>
    /\ \A clazz \in Classes : Assembled(clazz) =>
          /\ routerMap[clazz] \in Created
          /\ routerMap[clazz] \in 1..Len(routers)
    /\ \A clazz \in Classes : Assembled(clazz) /\ ~HasParent(parentMap, clazz) =>
          \E k \in 1..Len(trace) :
             trace[k] = Call("processController", AppRouter,
                             MountLayer(GetController(controllerMap, clazz).root,
                                        routerMap[clazz]))
    /\ \A k \in 1..(FirstUnresolvable - 1) :
          LET C == routerMap[parentMap[k].child]
              P == routerMap[parentMap[k].parent]
              root == GetController(controllerMap, parentMap[k].child).root
              M == controllerMiddlewareMap[parentMap[k].parent]
          IN /\ \E t \in 1..Len(trace) :
                   trace[t] = Call("processParents", P, MountLayer(root, C))
             /\ NonEmptyMiddleware(parentMap[k].parent) =>
                   \E t \in 1..Len(trace) :
                      trace[t] = Call("processParents", C, UseLayer(M.val))
    /\ \A r \in Created : routers[r] = LayersOn(r)
    /\ Len(app) >= Len(LayersOn(AppRouter))
    /\ SubSeq(app, Len(app) - Len(LayersOn(AppRouter)) + 1, Len(app))
         = LayersOn(AppRouter)

\* applyRoutes raised on the second pair, having mounted A on the
\* application router and wired B under A with A's middleware.
C18_Witness ==
  /\ Raised
  /\ FirstUnresolvable = 2
  /\ parentMap[1] = [child |-> "B", parent |-> "A"]
  /\ NonEmptyMiddleware("A")
  /\ Assembled("A") /\ ~HasParent(parentMap, "A")
  /\ \E i \in 1..Len(app) : app[i] = MountLayer("/a", routerMap["A"])
  /\ \E i \in 1..Len(routers[routerMap["A"]]) :
        routers[routerMap["A"]][i] = MountLayer("/b", routerMap["B"])

====
